---------------------------- MODULE Spec2Model ----------------------------
(***************************************************************************)
(* A model of agent.py: the Streamlit script main() that ingests CSV       *)
(* files, builds or loads a FAISS index, creates an agent and answers chat *)
(* queries, together with the helper functions it calls.                   *)
(*                                                                         *)
(* Text is a sequence of tokens (one-character or one-word strings), so    *)
(* that joining, stripping and lower-casing are computed, not assumed.     *)
(***************************************************************************)
EXTENDS Integers, Sequences, FiniteSets, TLC

VARIABLES
    \* st.session_state of the running browser session (agent.py 233-242): the
    \* keys that are set, and the value held under each key
    session_keys, vector_store, agent_executor, file_names, messages, is_initialized,
    \* the "faiss_index" directory on disk (agent.py 55, 60)
    faiss_index,
    \* what the last run of main() did and rendered
    ui,
    \* load_csv_documents in isolation: its argument and the files on disk, and
    \* the call's result
    load_in, loaded,
    \* the query post-processing in isolation: its inputs and what it renders
    post_in, post_out,
    \* one AgentExecutor.invoke: the orchestration loop's position
    agent_run,
    \* the retrieval tool in isolation: the index and query, and the chunks returned
    search_in, search_out,
    \* split_documents in isolation: the documents given, and the chunks
    \* returned with the positions of the parent text each one holds
    split_in, split_out

vars == <<session_keys, vector_store, agent_executor, file_names, messages, is_initialized,
          faiss_index, ui, load_in, loaded, post_in, post_out, agent_run,
          search_in, search_out,
                   split_in, split_out>>

main_vars == <<session_keys, vector_store, agent_executor, file_names, messages,
               is_initialized, faiss_index, ui>>

\* Python's None where a store, an agent or a file's DataFrame is expected
None == [none |-> TRUE]

\* no query: st.chat_input returned None (or "", equally falsy at line 272)
NoQuery == <<>>

\* ------------------------------------------------------------------------
\* Bounds of the model
\* ------------------------------------------------------------------------

\* rows per CSV file when load_csv_documents is explored on its own
MaxRows == 2
\* chat messages kept in one session
MaxMessages == 4
\* characters of a query when the post-processing is explored on its own
MaxQueryLen == 3
\* tool calls the model may propose in one agent iteration
MaxToolCalls == 2
\* entries of the index beyond k when the retrieval tool is explored on its own
ExtraEntries == 2

\* ------------------------------------------------------------------------
\* Sequence helpers
\* ------------------------------------------------------------------------

Range(s) == {s[i] : i \in 1..Len(s)}

RECURSIVE Concat(_)
\* the concatenation of a sequence of sequences
Concat(ss) == IF ss = <<>> THEN <<>> ELSE Head(ss) \o Concat(Tail(ss))

RECURSIVE SeqsUpTo(_, _)
\* all sequences over S of length at most n
SeqsUpTo(S, n) ==
    IF n = 0 THEN {<<>>}
    ELSE LET shorter == SeqsUpTo(S, n - 1)
         IN  shorter \cup {Append(s, x) : s \in {t \in shorter : Len(t) = n - 1}, x \in S}

\* ------------------------------------------------------------------------
\* load_csv_documents (agent.py 31-46)
\* ------------------------------------------------------------------------

\* main()'s csv_paths literal (agent.py 227-231)
csv_paths == << "csv_data/main_metrics.csv",
                "csv_data/var1_correlations.csv",
                "csv_data/var2_data_with_forecast_without_in&outcome.csv" >>

\* the outcome of pd.read_csv on an unreadable or malformed file
ReadError == [error |-> "pd.read_csv"]

\* the column names of each file; the schema is arbitrary, these are samples
Columns(csv_path) ==
    CASE csv_path = csv_paths[1] -> <<"date", "revenue">>
      [] csv_path = csv_paths[2] -> <<"metric">>
      [] OTHER                   -> <<"division">>

CellValues == {"1", "nan"}

\* the DataFrames pd.read_csv can return for csv_path: rows under its columns
Tables(csv_path, maxRows) ==
    LET cols == Columns(csv_path)
        rowSet == {r \in SeqsUpTo(CellValues, Len(cols)) : Len(r) = Len(cols)}
    IN  {[columns |-> cols, rows |-> rs] : rs \in SeqsUpTo(rowSet, maxRows)}

RECURSIVE Join(_, _)
\* sep.join(parts), each part and sep a token sequence
Join(parts, sep) ==
    IF parts = <<>> THEN <<>>
    ELSE IF Len(parts) = 1 THEN parts[1]
    ELSE parts[1] \o sep \o Join(Tail(parts), sep)

\* f"{col}: {val}" for the pairs of row.items(), joined with ", " (line 37)
RowContent(columns, row) ==
    Join([j \in 1..Len(columns) |-> <<columns[j], ": ", row[j]>>], <<", ">>)

\* RowDocument with a one-based row index
RowDocument_OneBased(csv_path, df, i) ==
    [page_content |-> RowContent(df.columns, df.rows[i]),
     metadata     |-> [source |-> csv_path, row_index |-> i]]

\* the Document built from row number i (1-based here) of a DataFrame; idx of
\* df.iterrows() is the RangeIndex label, i - 1 (lines 36-41)
RowDocument(csv_path, df, i) ==
    [page_content |-> RowContent(df.columns, df.rows[i]),
     metadata     |-> [source |-> csv_path, row_index |-> i - 1]]

\* the Documents of one file that pd.read_csv parsed (lines 36-42)
FileDocuments(csv_path, df) ==
    [i \in 1..Len(df.rows) |-> RowDocument(csv_path, df, i)]

\* LoadFrom with break in place of continue: the first failing file ends the loop
LoadFrom_Break(paths, fs, acc) ==
    LET Step[k \in 0..Len(paths)] ==
            IF k = 0 THEN [acc |-> acc, stopped |-> FALSE]
            ELSE LET prev == Step[k - 1]
                     df == fs[paths[k]]
                 IN  IF prev.stopped THEN prev
                     ELSE IF df = ReadError
                     THEN [acc |-> [prev.acc EXCEPT !.errors = Append(@, paths[k])],
                           stopped |-> TRUE]
                     ELSE [acc |-> [prev.acc EXCEPT !.documents =
                                        @ \o [i \in 1..Len(df.rows) |->
                                                 [page_content |-> RowContent(df.columns, df.rows[i]),
                                                  metadata |-> [source |-> paths[k],
                                                                row_index |-> i - 1]]]],
                           stopped |-> FALSE]
    IN  Step[Len(paths)].acc

RECURSIVE LoadFrom(_, _, _)
\* the for loop of lines 33-45 over paths, from the accumulator acc
LoadFrom(paths, fs, acc) ==
    IF paths = <<>> THEN acc
    ELSE LET csv_path == Head(paths)
             df == fs[csv_path]
         IN  IF df = ReadError
             THEN \* except: st.error(...); continue
                  LoadFrom(Tail(paths), fs,
                           [acc EXCEPT !.errors = Append(@, csv_path)])
             ELSE LoadFrom(Tail(paths), fs,
                           [acc EXCEPT !.documents = @ \o FileDocuments(csv_path, df)])

\* load_csv_documents(csv_paths) on the file system fs: the documents returned
\* and the paths an st.error was shown for
load_csv_documents(paths, fs) ==
    LoadFrom(paths, fs, [documents |-> <<>>, errors |-> <<>>])

\* ------------------------------------------------------------------------
\* split_documents, create_vector_store, load_existing_vector_store,
\* create_agent (agent.py 48-60, 107-222)
\* ------------------------------------------------------------------------

\* The splitter is langchain's RecursiveCharacterTextSplitter with its default
\* separators. A text is cut at the first separator that occurs in it; the
\* pieces are merged into chunks of at most chunk_size, each chunk starting
\* with the last pieces of the one before as far as they total at most
\* chunk_overlap; a piece too long for a chunk is cut with the next
\* separator. Pieces and chunks are intervals of positions of the text they
\* are cut from. The loops over the pieces are written chunk by chunk (the
\* first piece that does not fit, the first piece that may stay), which
\* gives the chunks the loops give. The length of a text is the number of
\* its elements.

\* a chunk_size one character too large
chunk_size_Larger == 1000 + 1

\* chunk_size of the RecursiveCharacterTextSplitter (line 49)
chunk_size == 1000

\* chunk_overlap of the RecursiveCharacterTextSplitter (line 49)
chunk_overlap == 200

\* the separators a RecursiveCharacterTextSplitter built without a separators
\* argument tries, in order: paragraph, line, word, character
separators == << <<"\n", "\n">>, <<"\n">>, <<" ">>, <<>> >>

\* the whitespace str.strip() removes, of the characters modelled
Whitespace == {" ", "\n"}

\* a piece of a text is the interval [from, to] of its positions; a piece's
\* length is the length function (len) applied to the characters it holds
PieceLen(piece) == piece.to - piece.from + 1

\* the positions of a piece at which the separator occurs
Occurrences(text, piece, separator) ==
    {i \in piece.from..(piece.to - Len(separator) + 1) :
        \A j \in 1..Len(separator) : text[i + j - 1] = separator[j]}

RECURSIVE NonOverlapping(_, _, _)
\* re.split scans from the left and its matches do not overlap: of the
\* occurrences at or after position from, the first, and then those that
\* start after it ends
NonOverlapping(occurrences, width, from) ==
    LET rest == {i \in occurrences : i >= from}
    IN  IF rest = {} THEN <<>>
        ELSE LET first == CHOOSE i \in rest : \A j \in rest : i <= j
             IN  <<first>> \o NonOverlapping(occurrences, width, first + width)

\* _split_text_with_regex(text, separator, keep_separator = True): the pieces
\* between the matches of the separator, each match kept at the start of the
\* piece that follows it, the empty pieces dropped; the empty separator
\* gives list(text), one piece per character
split_text_with_regex(text, piece, separator) ==
    IF separator = <<>>
    THEN [i \in 1..PieceLen(piece) |->
             [from |-> piece.from + i - 1, to |-> piece.from + i - 1]]
    ELSE LET starts == NonOverlapping(Occurrences(text, piece, separator),
                                      Len(separator), piece.from)
             n == Len(starts)
             all == [i \in 1..(n + 1) |->
                        [from |-> IF i = 1 THEN piece.from ELSE starts[i - 1],
                         to |-> IF i = n + 1 THEN piece.to ELSE starts[i] - 1]]
         IN  SelectSeq(all, LAMBDA p : p.from <= p.to)

\* _join_docs(docs, "") followed by strip(): the pieces lo..hi of the splits
\* joined and stripped, as a sequence of no chunk when nothing but
\* whitespace is left (None) and of one chunk otherwise
join_docs(text, splits, lo, hi) ==
    IF lo > hi THEN <<>>
    ELSE LET from == splits[lo].from
             to == splits[hi].to
             kept == {i \in from..to : text[i] \notin Whitespace}
         IN  IF kept = {} THEN <<>>
             ELSE << [from |-> CHOOSE i \in kept :
                                   \A j \in from..(i - 1) : text[j] \in Whitespace,
                      to |-> CHOOSE i \in kept :
                                 \A j \in (i + 1)..to : text[j] \in Whitespace] >>

\* total of _merge_splits while current_doc holds the pieces lo..hi (the
\* separator joined between them is "", keep_separator being True, and the
\* pieces of one call lie side by side in the text)
Total(splits, lo, hi) ==
    IF lo > hi THEN 0 ELSE splits[hi].to - splits[lo].from + 1

RECURSIVE MergeFrom(_, _, _, _)
\* the loop of _merge_splits from the moment current_doc holds the pieces
\* lo..(next - 1): the pieces are appended up to the first piece d that would
\* take a non-empty current_doc past chunk_size; there current_doc is emitted
\* and pieces are popped from its front while it is longer than
\* chunk_overlap, or while d does not fit behind what is left; after the last
\* piece what remains is emitted
MergeFrom(text, splits, lo, next) ==
    LET n == Len(splits)
        full == {d \in next..n :
                    /\ lo <= d - 1
                    /\ Total(splits, lo, d - 1) + PieceLen(splits[d]) > chunk_size}
    IN  IF full = {} THEN join_docs(text, splits, lo, n)
        ELSE LET d == CHOOSE i \in full : \A j \in full : i <= j
                 Pop(l) == \/ Total(splits, l, d - 1) > chunk_overlap
                           \/ /\ Total(splits, l, d - 1) + PieceLen(splits[d])
                                     > chunk_size
                              /\ Total(splits, l, d - 1) > 0
                 stay == {l \in lo..d : ~Pop(l)}
                 lo2 == CHOOSE l \in stay : \A j \in stay : l <= j
             IN  join_docs(text, splits, lo, d - 1)
                 \o MergeFrom(text, splits, lo2, d + 1)

\* _merge_splits(splits, ""): current_doc starts empty
merge_splits(text, splits) ==
    IF splits = <<>> THEN <<>> ELSE MergeFrom(text, splits, 1, 1)

RECURSIVE split_text(_, _, _), SplitFrom(_, _, _, _)
\* the loop of _split_text from piece i on: the pieces shorter than
\* chunk_size are collected (_good_splits) up to the next piece that is not,
\* merged, and that piece is split with the separators that remain, or kept
\* whole when none remains
SplitFrom(text, splits, new_separators, i) ==
    LET n == Len(splits)
        long == {l \in i..n : PieceLen(splits[l]) >= chunk_size}
    IN  IF long = {} THEN merge_splits(text, SubSeq(splits, i, n))
        ELSE LET l == CHOOSE x \in long : \A y \in long : x <= y
             IN  merge_splits(text, SubSeq(splits, i, l - 1))
                 \o (IF new_separators > Len(separators) THEN <<splits[l]>>
                     ELSE split_text(text, splits[l], new_separators))
                 \o SplitFrom(text, splits, new_separators, l + 1)

\* _split_text(text, separators): the first separator that is empty or occurs
\* in the text cuts it; first is the position of the first separator still
\* to try
split_text(text, piece, first) ==
    LET usable == {k \in first..Len(separators) :
                      \/ separators[k] = <<>>
                      \/ Occurrences(text, piece, separators[k]) # {}}
        k == CHOOSE x \in usable : \A y \in usable : x <= y
        new_separators == IF separators[k] = <<>> THEN Len(separators) + 1
                          ELSE k + 1
    IN  SplitFrom(text, split_text_with_regex(text, piece, separators[k]),
                  new_separators, 1)

\* split_text(text): the chunks of a text as intervals of its positions
Chunks(text) ==
    split_text(text, [from |-> 1, to |-> Len(text)], 1)

\* the chunks of a text as texts
SplitText(text) ==
    LET chunks == Chunks(text)
    IN  [c \in 1..Len(chunks) |-> SubSeq(text, chunks[c].from, chunks[c].to)]

\* split_documents(documents): the chunks of every document, in order, each
\* with its parent's metadata
split_documents(documents) ==
    Concat([n \in 1..Len(documents) |->
               LET texts == SplitText(documents[n].page_content)
               IN  [c \in 1..Len(texts) |->
                       [page_content |-> texts[c],
                        metadata |-> documents[n].metadata]]])

\* the places of one run of main() where a delegated call can raise
FaultSites == {"none", "create_vector_store", "load_existing_vector_store",
               "create_agent", "invoke"}

\* the value of a name bound to no directory: "faiss_index" does not exist
NoIndex == [exists |-> FALSE]

\* FAISS.from_documents(documents, embeddings): one index entry per chunk
FaissIndex(documents) == [docs |-> documents]

\* what save_local("faiss_index") leaves on disk; paths records the file list
\* the index was built from (the directory itself does not hold it)
SavedIndex(store, paths) == [docs |-> store.docs, paths |-> paths]

\* max_iterations set one too high
max_iterations_Four == 3 + 1

\* max_iterations of the AgentExecutor (line 220)
max_iterations == 3

\* create_agent(vector_store): the AgentExecutor over the two tools (215-222)
AgentExecutor(store) == [retriever |-> store, max_iterations |-> max_iterations]

\* the keys main() keeps in st.session_state
SessionKeys == {"vector_store", "agent_executor", "file_names", "messages",
                "is_initialized"}

\* Python truthiness of a session value: None is falsy, a FAISS store or an
\* AgentExecutor is truthy
Truthy(v) == v # None

\* ------------------------------------------------------------------------
\* Query post-processing (agent.py 286-296)
\* ------------------------------------------------------------------------

\* str.lower() on one character
LowerChar(c) == CASE c = "G" -> "g" [] c = "X" -> "x" [] OTHER -> c

\* str.lower()
Lower(s) == [i \in 1..Len(s) |-> LowerChar(s[i])]

RECURSIVE LStrip(_)
LStrip(s) == IF s # <<>> /\ Head(s) \in Whitespace THEN LStrip(Tail(s)) ELSE s

RECURSIVE RStrip(_)
RStrip(s) ==
    IF s # <<>> /\ s[Len(s)] \in Whitespace
    THEN RStrip(SubSeq(s, 1, Len(s) - 1)) ELSE s

\* str.strip()
Strip(s) == RStrip(LStrip(s))

\* target_queries (lines 286-289): the two lower-case graph-request phrases,
\* shortened to words over the model's alphabet
target_queries == { <<"g", " ", "x">>, <<"x">> }

\* IsTargetQuery without the normalisation: query in target_queries
IsTargetQuery_Exact(query) == query \in target_queries

\* query.strip().lower() in target_queries (line 290)
IsTargetQuery(query) == Lower(Strip(query)) \in target_queries

SubstitutionText == "Prognozy po operatsionnym pokazatelyam predstavleny na grafike vyshe."
ApologyText == "Izvinite, ne poluchilos sgenerirovat grafik"

\* lines 286-296: the answer stored and whether st.image is called, from the
\* query, the agent's output and os.path.exists(image_path)
PostProcess(query, output, image_exists) ==
    IF IsTargetQuery(query)
    THEN IF image_exists
         THEN [answer |-> SubstitutionText, image |-> TRUE]
         ELSE [answer |-> ApologyText, image |-> FALSE]
    ELSE [answer |-> output, image |-> FALSE]

\* ------------------------------------------------------------------------
\* main() (agent.py 224-302): one run of the script
\* ------------------------------------------------------------------------

\* the rank of a path in the lexicographic order sorted() uses
PathRank(p) ==
    CASE p = "csv_data/main_metrics.csv" -> 1
      [] p = "csv_data/old_metrics.csv" -> 2
      [] p = "csv_data/var1_correlations.csv" -> 3
      [] OTHER -> 4

\* sorted(paths)
sorted(paths) == SortSeq(paths, LAMBDA a, b : PathRank(a) < PathRank(b))

\* what a run has done and rendered before its first statement
NoRun ==
    [fresh      |-> FALSE,            \* the run began with no session keys set
     persisted  |-> <<>>,             \* file list of the index on disk at its start
     loaded     |-> 0,                \* len(documents) load_csv_documents returned
     calls      |-> <<>>,             \* the delegated calls made, in order
     errors     |-> <<>>,             \* the st.error messages shown, in order
     notice     |-> "",               \* the st.success / st.info message shown
     exception  |-> "none",           \* the call whose exception left main() uncaught
     chat_input |-> "not rendered",   \* the chat input as rendered (line 270)
     query      |-> NoQuery,          \* the query st.chat_input returned
     answer     |-> "",               \* the answer shown with st.markdown (line 300)
     image      |-> FALSE]            \* st.image was called (line 293)

\* the session and the disk as one record, as main() reads and writes them
Current ==
    [session_keys |-> session_keys,
     vector_store |-> vector_store, agent_executor |-> agent_executor,
     file_names |-> file_names, messages |-> messages,
     is_initialized |-> is_initialized, faiss_index |-> faiss_index,
     ui |-> NoRun, exit |-> "running"]

\* lines 233-242: every key that is not in st.session_state gets its default
SessionDefaults(s) ==
    LET Default(key, v, d) == IF key \in s.session_keys THEN v ELSE d
    IN  [s EXCEPT !.session_keys = SessionKeys,
                  !.vector_store = Default("vector_store", @, None),
                  !.agent_executor = Default("agent_executor", @, None),
                  !.file_names = Default("file_names", @, <<>>),
                  !.messages = Default("messages", @, <<>>),
                  !.is_initialized = Default("is_initialized", @, FALSE),
                  !.ui.fresh = (s.session_keys = {}),
                  !.ui.persisted =
                      IF s.faiss_index = NoIndex THEN <<>> ELSE s.faiss_index.paths]

Called(s, name) == [s EXCEPT !.ui.calls = Append(@, name)]

\* an exception of the call `name` that nothing in main() catches: the run ends
\* there and Streamlit shows the exception; the session keeps what was assigned
Raise(s, name) == [s EXCEPT !.ui.exception = name, !.exit = "raised"]

\* NoDocuments without the return: the error is shown and main() goes on to
\* build an index from the empty list
NoDocuments_NoReturn(s) ==
    [s EXCEPT !.ui.errors = Append(@, "No valid CSV data loaded"),
              !.ui.calls = @ \o <<"create_vector_store", "create_agent">>,
              !.vector_store = FaissIndex(<<>>),
              !.agent_executor = AgentExecutor(FaissIndex(<<>>)),
              !.is_initialized = TRUE]

\* lines 250-252: st.error("No valid CSV data loaded. ..."); return
NoDocuments(s) ==
    [s EXCEPT !.ui.errors = Append(@, "No valid CSV data loaded"),
              !.exit = "returned"]

\* lines 255-257, after the store was assigned: create_agent, then the flag
CreateAgentAndFinish(s, fault, notice) ==
    LET c == Called(s, "create_agent")
    IN  IF fault = "create_agent" THEN Raise(c, "create_agent")
        ELSE [c EXCEPT !.agent_executor = AgentExecutor(s.vector_store),
                       !.is_initialized = TRUE,
                       !.ui.notice = notice]

\* CreateVectorStore with the failure swallowed: the store is None and main()
\* goes on
CreateVectorStore_Swallowed(s, split_docs, fault) ==
    LET c == [s EXCEPT !.ui.calls = Append(@, "create_vector_store")]
    IN  IF fault = "create_vector_store" THEN [c EXCEPT !.vector_store = None]
        ELSE [c EXCEPT !.vector_store = FaissIndex(split_docs),
                       !.faiss_index =
                           SavedIndex(FaissIndex(split_docs), s.file_names)]

\* line 254: st.session_state.vector_store = create_vector_store(split_docs);
\* FAISS.from_documents and save_local both finish, or the call raises and
\* nothing is assigned
CreateVectorStore(s, split_docs, fault) ==
    LET c == Called(s, "create_vector_store")
    IN  IF fault = "create_vector_store" THEN Raise(c, "create_vector_store")
        ELSE [c EXCEPT !.vector_store = FaissIndex(split_docs),
                       !.faiss_index =
                           SavedIndex(FaissIndex(split_docs), s.file_names)]

\* lines 248-257: the branch that builds the index
BuildBranch(s, fs, fault) ==
    LET s1 == [s EXCEPT !.file_names = sorted(csv_paths)]
        r  == load_csv_documents(csv_paths, fs)
        s2 == [Called(s1, "load_csv_documents") EXCEPT
                  !.ui.loaded = Len(r.documents),
                  !.ui.errors = @ \o [i \in 1..Len(r.errors) |->
                                         <<"Error loading", r.errors[i]>>]]
    IN  IF r.documents = <<>> THEN NoDocuments(s2)
        ELSE LET s3 == CreateVectorStore(s2, split_documents(r.documents), fault)
             IN  IF s3.exit # "running" THEN s3
                 ELSE CreateAgentAndFinish(s3, fault, "vector store created")

\* LoadBranch with the flag set before the index is loaded
LoadBranch_FlagFirst(s, fault) ==
    LET c == [s EXCEPT !.ui.calls = Append(@, "load_existing_vector_store"),
                       !.is_initialized = TRUE]
    IN  IF fault = "load_existing_vector_store" \/ s.faiss_index = NoIndex
        THEN [c EXCEPT !.ui.exception = "load_existing_vector_store",
                       !.exit = "raised"]
        ELSE [c EXCEPT !.vector_store = FaissIndex(s.faiss_index.docs),
                       !.agent_executor =
                           IF s.agent_executor = None
                           THEN AgentExecutor(FaissIndex(s.faiss_index.docs)) ELSE @,
                       !.ui.notice = "using existing vector store"]

\* lines 259-263: the branch that loads the index from disk
LoadBranch(s, fault) ==
    LET c == Called(s, "load_existing_vector_store")
    IN  IF fault = "load_existing_vector_store" \/ s.faiss_index = NoIndex
        THEN Raise(c, "load_existing_vector_store")
        ELSE LET s1 == [c EXCEPT !.vector_store = FaissIndex(s.faiss_index.docs)]
             IN  IF ~Truthy(s1.agent_executor)
                 THEN CreateAgentAndFinish(s1, fault, "using existing vector store")
                 ELSE [s1 EXCEPT !.is_initialized = TRUE,
                                 !.ui.notice = "using existing vector store"]

\* line 247: rebuild unless the file list is unchanged and a store is held
MustBuild(s) ==
    sorted(csv_paths) # s.file_names \/ ~Truthy(s.vector_store)

\* an initialization block that runs whatever the flag says
InitializationBlock_Unguarded(s, fs, fault) ==
    IF MustBuild(s) THEN BuildBranch(s, fs, fault)
    ELSE LoadBranch(s, fault)

\* lines 244-263
InitializationBlock(s, fs, fault) ==
    IF s.is_initialized THEN s
    ELSE IF MustBuild(s) THEN BuildBranch(s, fs, fault)
    ELSE LoadBranch(s, fault)

\* line 270: disabled = not st.session_state.is_initialized
ChatInputDisabled(s) == ~s.is_initialized

\* AnswerQuery without the try block: the exception leaves main() uncaught
AnswerQuery_Uncaught(s, query, fault, output, image_exists) ==
    LET c == [s EXCEPT !.ui.calls = Append(@, "invoke")]
    IN  IF fault = "invoke" \/ s.agent_executor = None
        THEN [c EXCEPT !.ui.exception = "invoke"]
        ELSE LET p == PostProcess(query, output, image_exists)
             IN  [c EXCEPT !.messages =
                               Append(@, [role |-> "assistant", content |-> p.answer]),
                           !.ui.answer = p.answer,
                           !.ui.image = p.image]

\* lines 277-302: the try block around the agent's invocation
AnswerQuery(s, query, fault, output, image_exists) ==
    LET c == Called(s, "invoke")
    IN  IF fault = "invoke" \/ ~Truthy(s.agent_executor)
        THEN \* except Exception as e: st.error(...)
             [c EXCEPT !.ui.errors = Append(@, "Error processing query")]
        ELSE LET p == PostProcess(query, output, image_exists)
             IN  [c EXCEPT !.messages =
                               Append(@, [role |-> "assistant", content |-> p.answer]),
                           !.ui.answer = p.answer,
                           !.ui.image = p.image]

\* a query step that hands the query to the agent without recording the
\* user message first
QueryStep_NoUserMessage(s, submitted, fault, output, image_exists) ==
    LET disabled == ChatInputDisabled(s)
        query == IF disabled THEN NoQuery ELSE submitted
        s1 == [s EXCEPT !.ui.chat_input = IF disabled THEN "disabled" ELSE "enabled",
                        !.ui.query = query]
    IN  IF query = NoQuery THEN s1
        ELSE AnswerQuery(s1, query, fault, output, image_exists)

\* lines 265-302: render the history and the chat input, answer a query
QueryStep(s, submitted, fault, output, image_exists) ==
    LET disabled == ChatInputDisabled(s)
        query == IF disabled THEN NoQuery ELSE submitted
        s1 == [s EXCEPT !.ui.chat_input = IF disabled THEN "disabled" ELSE "enabled",
                        !.ui.query = query]
    IN  IF query = NoQuery THEN s1
        ELSE AnswerQuery(
                 [s1 EXCEPT !.messages = Append(@, [role |-> "user", content |-> query])],
                 query, fault, output, image_exists)

\* main(): the whole run
RunMain(s, fs, fault, submitted, output, image_exists) ==
    LET i == InitializationBlock(SessionDefaults(s), fs, fault)
    IN  IF i.exit # "running" THEN i
        ELSE [QueryStep(i, submitted, fault, output, image_exists)
                 EXCEPT !.exit = "finished"]

\* ------------------------------------------------------------------------
\* The session machine: reruns of main() and new sessions
\* ------------------------------------------------------------------------

\* a DataFrame for each file when main() is explored: one or two rows
SampleTable(csv_path) ==
    [columns |-> Columns(csv_path),
     rows |-> IF csv_path = csv_paths[1] THEN << <<"1", "1">>, <<"nan", "1">> >>
              ELSE << <<"1">> >>]

\* the file systems main() is run on: every subset of the files is readable
MainFileSystems ==
    {[p \in Range(csv_paths) |-> IF p \in S THEN SampleTable(p) ELSE ReadError] :
        S \in SUBSET Range(csv_paths)}

\* the queries a user submits when main() is explored: a graph-request phrase,
\* the same phrase capitalised, and another question
MainQueries == { <<"g", " ", "x">>, <<"G", " ", "x">>, <<"g">> }

\* response["output"] of a successful invocation
AgentOutput == "agent output"

\* an index left in "faiss_index" by an earlier deployment with another file list
StaleIndex ==
    SavedIndex(FaissIndex(<< [page_content |-> <<"metric", ": ", "1">>,
                              metadata |-> [source |-> "csv_data/old_metrics.csv",
                                            row_index |-> 0]] >>),
               <<"csv_data/old_metrics.csv">>)

\* the variables of the explorations of single functions, at rest
LoadIdle == load_in = None /\ loaded = None
PostIdle == post_in = None /\ post_out = None
AgentIdle == agent_run = None
SearchIdle == search_in = None /\ search_out = None
SplitIdle == split_in = None /\ split_out = None

Init ==
    /\ session_keys = {}
    /\ vector_store = None
    /\ agent_executor = None
    /\ file_names = <<>>
    /\ messages = <<>>
    /\ is_initialized = FALSE
    /\ faiss_index \in {NoIndex, StaleIndex}
    /\ ui = NoRun
    /\ LoadIdle /\ PostIdle /\ AgentIdle /\ SearchIdle /\ SplitIdle

\* one run of main(): Streamlit reruns the script on every interaction. A query
\* can only have been submitted through a chat input rendered enabled.
Main ==
    \E fs \in MainFileSystems, fault \in FaultSites,
       submitted \in MainQueries \cup {NoQuery}, image_exists \in BOOLEAN :
        /\ submitted # NoQuery =>
               /\ ui.chat_input = "enabled"
               /\ Len(messages) + 2 <= MaxMessages
        \* the session and disk as the run leaves them
        /\ \E s \in {RunMain(Current, fs, fault, submitted, AgentOutput, image_exists)} :
               /\ session_keys' = s.session_keys
               /\ vector_store' = s.vector_store
               /\ agent_executor' = s.agent_executor
               /\ file_names' = s.file_names
               /\ messages' = s.messages
               /\ is_initialized' = s.is_initialized
               /\ faiss_index' = s.faiss_index
               /\ ui' = s.ui
        /\ UNCHANGED <<load_in, loaded, post_in, post_out, agent_run,
                       search_in, search_out,
                   split_in, split_out>>

\* the process restarts or a new browser session opens: st.session_state is
\* empty again, the "faiss_index" directory stays
NewSession ==
    /\ session_keys # {}
    /\ session_keys' = {}
    /\ vector_store' = None
    /\ agent_executor' = None
    /\ file_names' = <<>>
    /\ messages' = <<>>
    /\ is_initialized' = FALSE
    /\ ui' = NoRun
    /\ UNCHANGED <<faiss_index, load_in, loaded, post_in, post_out, agent_run,
                   search_in, search_out,
                   split_in, split_out>>

Next == Main \/ NewSession

Spec == Init /\ [][Next]_vars

\* ------------------------------------------------------------------------
\* Properties of the session machine
\* ------------------------------------------------------------------------

\* the last run handed a query to agent_executor.invoke
Invoked == "invoke" \in Range(ui.calls)

\* C1: a query is handed to the agent only when is_initialized is true, and
\* while no index has been built or loaded (or the flag is false) the chat
\* input is not available for input and no query is processed.
C1_QueryOnlyWhenInitialized ==
    /\ Invoked => is_initialized /\ Truthy(vector_store)
    /\ (~is_initialized \/ ~Truthy(vector_store)) =>
           /\ ui.chat_input # "enabled"
           /\ ui.query = NoQuery
           /\ ~Invoked
           /\ ui.answer = ""

\* a run that initialized the session and answered a query
C1_Witness ==
    /\ Invoked /\ is_initialized /\ ui.answer = AgentOutput
    /\ ui.chat_input = "enabled"

\* C2: a run whose agent invocation fails shows "Error processing query" and
\* does not end in an uncaught exception; the messages recorded so far (with the
\* failed query's user message), the index, the agent and the flag are kept, and
\* the chat input stays enabled for a later query.
C2_QueryFailureIsContained ==
    [][ (("invoke" \in Range(ui'.calls)) /\ ui'.answer = "") =>
            /\ ui'.errors = <<"Error processing query">>
            /\ ui'.exception = "none"
            /\ messages' = Append(messages, [role |-> "user", content |-> ui'.query])
            /\ vector_store' = vector_store /\ Truthy(vector_store)
            /\ agent_executor' = agent_executor /\ Truthy(agent_executor)
            /\ is_initialized /\ is_initialized'
            /\ file_names' = file_names
            /\ faiss_index' = faiss_index
            /\ ui'.chat_input = "enabled" ]_vars

\* a failed query followed by a later query that was answered: the history
\* holds a user message without reply, then a user message and its reply
C2_Witness ==
    /\ Invoked /\ ui.answer # ""
    /\ Len(messages) = 3
    /\ messages[1].role = "user" /\ messages[2].role = "user"
    /\ messages[3].role = "assistant"

\* the last run called load_csv_documents and got no documents
NoDocumentsLoaded ==
    "load_csv_documents" \in Range(ui.calls) /\ ui.loaded = 0

\* C3: when load_csv_documents returns no documents the run reports the
\* failure and builds nothing: no call of create_vector_store or create_agent,
\* vector_store and agent_executor unset, is_initialized false; on every run.
C3_NoDocumentsNoIndex ==
    NoDocumentsLoaded =>
        /\ ui.errors[Len(ui.errors)] = "No valid CSV data loaded"
        /\ ui.calls = <<"load_csv_documents">>
        /\ vector_store = None
        /\ agent_executor = None
        /\ ~is_initialized
        /\ ui.exception = "none"

\* every file failed, in a rerun of a session that had tried before
C3_Witness ==
    /\ NoDocumentsLoaded /\ ~ui.fresh
    /\ Len(ui.errors) = Len(csv_paths) + 1
    /\ file_names = sorted(csv_paths)

\* C5: a fresh session that finds a persisted index and initializes has
\* loaded that index, without building one, when it was built from the same
\* set of source paths, and has rebuilt the index when the set differs.
C5_PersistedIndexReused ==
    (ui.fresh /\ is_initialized /\ ui.persisted # <<>>) =>
        IF Range(ui.persisted) = Range(csv_paths)
        THEN /\ "load_existing_vector_store" \in Range(ui.calls)
             /\ "create_vector_store" \notin Range(ui.calls)
        ELSE /\ "create_vector_store" \in Range(ui.calls)
             /\ "load_existing_vector_store" \notin Range(ui.calls)

\* C6: a run in which create_vector_store or load_existing_vector_store raises
\* ends there with the exception shown: the serving index is what it was (no
\* partial index), is_initialized stays false, the chat input is not rendered
\* and no query is processed.
C6_IndexFailureDisablesServing ==
    [][ (ui'.exception \in {"create_vector_store", "load_existing_vector_store"}) =>
            /\ vector_store' = vector_store
            /\ agent_executor' = agent_executor
            /\ ~is_initialized'
            /\ messages' = messages
            /\ "invoke" \notin Range(ui'.calls)
            /\ ui'.chat_input = "not rendered"
            /\ ui'.query = NoQuery /\ ui'.answer = "" ]_vars

\* loading the persisted index failed while a store from an earlier build is held
C6_Witness ==
    /\ ui.exception = "load_existing_vector_store"
    /\ Truthy(vector_store) /\ ~is_initialized

\* the calls made by the initialization block (lines 244-263)
InitializationCalls ==
    {"load_csv_documents", "create_vector_store", "load_existing_vector_store",
     "create_agent"}

\* C12: whenever is_initialized is true, vector_store and agent_executor are
\* both set, and a run that invoked the agent had one to invoke; and a run of
\* main() in a session whose flag is already true keeps the flag, makes none
\* of the initialization block's calls and leaves the store, the agent, the
\* file list and the index on disk as they were.
C12_InitializedOnceAndReady ==
    /\ [](/\ is_initialized => Truthy(vector_store) /\ Truthy(agent_executor)
          /\ Invoked => Truthy(agent_executor))
    /\ [][ (is_initialized /\ session_keys' # {}) =>
               /\ is_initialized'
               /\ Range(ui'.calls) \cap InitializationCalls = {}
               /\ vector_store' = vector_store
               /\ agent_executor' = agent_executor
               /\ file_names' = file_names
               /\ faiss_index' = faiss_index ]_vars

\* a rerun of a session that an earlier run initialized: the block did not
\* run again, and the chat input is offered with the store and agent held
C12_Witness ==
    /\ is_initialized /\ ~ui.fresh
    /\ Range(ui.calls) \cap InitializationCalls = {}
    /\ Truthy(vector_store) /\ Truthy(agent_executor)
    /\ ui.chat_input = "enabled" /\ ~Invoked

\* C13: within a session messages only grows at its end: a run without a
\* query leaves it as it was, a run whose agent invocation fails appends the
\* query's user message and nothing else, a run whose invocation succeeds
\* appends the user message and then exactly one assistant message, the
\* answer shown; so every assistant message directly follows a user message,
\* while a user message may stay without a reply.
C13_MessagesAppendOnly ==
    /\ [](\A i \in 1..Len(messages) :
              messages[i].role = "assistant" =>
                  i > 1 /\ messages[i - 1].role = "user")
    /\ [][ session_keys' # {} =>
               LET user == [role |-> "user", content |-> ui'.query]
                   reply == [role |-> "assistant", content |-> ui'.answer]
               IN  IF "invoke" \notin Range(ui'.calls)
                   THEN messages' = messages
                   ELSE IF ui'.answer = ""
                   THEN messages' = Append(messages, user)
                   ELSE messages' = messages \o <<user, reply>> ]_vars

\* an answered query followed by a query whose invocation failed: the
\* history ends with a user message that has no reply
C13_Witness ==
    /\ Invoked /\ ui.answer = "" /\ ui.errors = <<"Error processing query">>
    /\ Len(messages) = 3
    /\ messages[1].role = "user" /\ messages[2].role = "assistant"
    /\ messages[3] = [role |-> "user", content |-> ui.query]

\* ------------------------------------------------------------------------
\* load_csv_documents on its own: any file contents, several path lists
\* ------------------------------------------------------------------------

\* every file system over the three paths: a file is unreadable or holds any
\* table of at most MaxRows rows under its columns
LoadFileSystems ==
    LET Contents(p) == {ReadError} \cup Tables(p, MaxRows)
    IN  {[p \in Range(csv_paths) |->
             CASE p = csv_paths[1] -> a [] p = csv_paths[2] -> b [] OTHER -> c] :
            a \in Contents(csv_paths[1]), b \in Contents(csv_paths[2]),
            c \in Contents(csv_paths[3])}

\* the lists load_csv_documents is called with: main()'s list, and shorter and
\* reordered lists
PathLists ==
    { csv_paths, <<csv_paths[3], csv_paths[1]>>, <<csv_paths[2]>> }

LoadInit ==
    /\ load_in \in {[csv_paths |-> ps, fs |-> fs] :
                       ps \in PathLists, fs \in LoadFileSystems}
    /\ loaded = None
    /\ session_keys = {} /\ vector_store = None /\ agent_executor = None
    /\ file_names = <<>> /\ messages = <<>> /\ is_initialized = FALSE
    /\ faiss_index = NoIndex /\ ui = NoRun
    /\ PostIdle /\ AgentIdle /\ SearchIdle /\ SplitIdle

\* the call load_csv_documents(csv_paths)
LoadCsvDocuments ==
    /\ loaded = None
    /\ loaded' = load_csv_documents(load_in.csv_paths, load_in.fs)
    /\ UNCHANGED <<main_vars, load_in, post_in, post_out, agent_run,
                   search_in, search_out,
                   split_in, split_out>>

LoadNext == LoadCsvDocuments

SpecLoad == LoadInit /\ [][LoadNext]_vars

\* the position of path p in the list ps
PathPos(ps, p) == CHOOSE k \in 1..Len(ps) : ps[k] = p

\* the documents of `docs` that come from file p, in order
DocsOf(docs, p) == SelectSeq(docs, LAMBDA d : d.metadata.source = p)

\* C4: load_csv_documents shows one error per failing file, in file order, and
\* goes on: every file that loads contributes all its rows, none is cut short
\* by another file's failure, failing files contribute nothing, and documents
\* come in file order.
C4_FailuresAreLocal ==
    loaded # None =>
        LET ps == load_in.csv_paths
            fs == load_in.fs
            docs == loaded.documents
        IN  /\ loaded.errors = SelectSeq(ps, LAMBDA p : fs[p] = ReadError)
            /\ \A k \in 1..Len(ps) :
                   LET mine == DocsOf(docs, ps[k])
                   IN  IF fs[ps[k]] = ReadError THEN mine = <<>>
                       ELSE /\ Len(mine) = Len(fs[ps[k]].rows)
                            /\ \A i \in 1..Len(mine) :
                                   mine[i].page_content =
                                       RowContent(fs[ps[k]].columns, fs[ps[k]].rows[i])
            /\ \A i, j \in 1..Len(docs) :
                   i < j => PathPos(ps, docs[i].metadata.source)
                                <= PathPos(ps, docs[j].metadata.source)

\* the second of three files fails, the first and the third load with rows
C4_Witness ==
    /\ loaded # None
    /\ load_in.csv_paths = csv_paths
    /\ load_in.fs[csv_paths[2]] = ReadError
    /\ load_in.fs[csv_paths[1]] # ReadError
    /\ load_in.fs[csv_paths[3]] # ReadError
    /\ Len(DocsOf(loaded.documents, csv_paths[1])) = MaxRows
    /\ Len(DocsOf(loaded.documents, csv_paths[3])) = MaxRows
    /\ loaded.errors = <<csv_paths[2]>>

RECURSIVE TotalRows(_, _)
\* the rows of the files of ps that parse
TotalRows(ps, fs) ==
    IF ps = <<>> THEN 0
    ELSE (IF fs[Head(ps)] = ReadError THEN 0 ELSE Len(fs[Head(ps)].rows))
         + TotalRows(Tail(ps), fs)

\* C7: one Document per row of every parsed file; its content is
\* "col: val" for each column in column order, separated by ", ", and its
\* metadata holds the file's path and the zero-based row index.
C7_OneDocumentPerRow ==
    loaded # None =>
        LET ps == load_in.csv_paths
            fs == load_in.fs
            docs == loaded.documents
        IN  /\ Len(docs) = TotalRows(ps, fs)
            /\ \A n \in 1..Len(docs) :
                   LET d == docs[n]
                       src == d.metadata.source
                       idx == d.metadata.row_index
                       c == d.page_content
                   IN  /\ src \in Range(ps) /\ fs[src] # ReadError
                       /\ idx \in 0..(Len(fs[src].rows) - 1)
                       \* its place among the documents of its file
                       /\ idx = Cardinality({m \in 1..(n - 1) :
                                               docs[m].metadata.source = src})
                       /\ LET cols == fs[src].columns
                              row == fs[src].rows[idx + 1]
                          IN  /\ Len(c) = 4 * Len(cols) - 1
                              /\ \A j \in 1..Len(cols) :
                                     /\ c[4 * j - 3] = cols[j]
                                     /\ c[4 * j - 2] = ": "
                                     /\ c[4 * j - 1] = row[j]
                                     /\ j < Len(cols) => c[4 * j] = ", "

\* all three files parse, each with MaxRows rows, and the call has returned
C7_Witness ==
    /\ loaded # None
    /\ load_in.csv_paths = csv_paths
    /\ \A p \in Range(csv_paths) :
           load_in.fs[p] # ReadError /\ Len(load_in.fs[p].rows) = MaxRows
    /\ Len(loaded.documents) = 3 * MaxRows
    /\ loaded.documents[MaxRows].metadata.row_index = MaxRows - 1

\* ------------------------------------------------------------------------
\* The query step on its own: any short query on an initialized session
\* ------------------------------------------------------------------------

\* the characters queries are made of: the letters of the phrases, an
\* upper-case letter and a blank
Alphabet == {"g", "G", "x", " "}

\* the non-empty queries of at most MaxQueryLen characters (an empty query is
\* falsy at line 272)
Queries == SeqsUpTo(Alphabet, MaxQueryLen) \ {NoQuery}

\* a session that main() has initialized from the sample files
ReadySession ==
    LET docs == split_documents(
                    load_csv_documents(csv_paths,
                        [p \in Range(csv_paths) |-> SampleTable(p)]).documents)
    IN  [session_keys |-> SessionKeys,
         vector_store |-> FaissIndex(docs),
         agent_executor |-> AgentExecutor(FaissIndex(docs)),
         file_names |-> sorted(csv_paths), messages |-> <<>>,
         is_initialized |-> TRUE,
         faiss_index |-> SavedIndex(FaissIndex(docs), sorted(csv_paths)),
         ui |-> NoRun, exit |-> "running"]

PostInit ==
    /\ post_in \in [query : Queries, fault : {"none", "invoke"},
                    output : {AgentOutput}, image_exists : BOOLEAN]
    /\ post_out = None
    /\ session_keys = {} /\ vector_store = None /\ agent_executor = None
    /\ file_names = <<>> /\ messages = <<>> /\ is_initialized = FALSE
    /\ faiss_index = NoIndex /\ ui = NoRun
    /\ LoadIdle /\ AgentIdle /\ SearchIdle /\ SplitIdle

\* lines 265-302 on the submitted query: what is rendered and recorded
AnswerSubmitted ==
    /\ post_out = None
    /\ LET s == QueryStep(ReadySession, post_in.query, post_in.fault,
                          post_in.output, post_in.image_exists)
       IN  post_out' = [ui |-> s.ui, messages |-> s.messages]
    /\ UNCHANGED <<main_vars, load_in, loaded, post_in, agent_run,
                   search_in, search_out,
                   split_in, split_out>>

PostNext == AnswerSubmitted

SpecPost == PostInit /\ [][PostNext]_vars

\* what the claim says is rendered for a query that `matches` a phrase or not
Rendered(matches) ==
    IF matches
    THEN IF post_in.image_exists
         THEN post_out.ui.answer = SubstitutionText /\ post_out.ui.image
         ELSE post_out.ui.answer = ApologyText /\ ~post_out.ui.image
    ELSE post_out.ui.answer = post_in.output /\ ~post_out.ui.image

\* C8 as stated: a query equal to one of the two phrases gets the fixed text
\* and the image (or the apology without the image); a query equal to
\* neither gets the agent's output and no image. (Read for an invocation
\* that succeeds.)
C8_ExactMatchDecides ==
    (post_out # None /\ post_in.fault = "none") =>
        Rendered(post_in.query \in target_queries)

\* the query, with i leading and j trailing blanks removed and every letter
\* lower-cased, is one of the two phrases
MatchesUpToCaseAndBlanks(q) ==
    \E i, j \in 0..Len(q) :
        /\ i + j <= Len(q)
        /\ \A k \in 1..i : q[k] = " "
        /\ \A k \in (Len(q) - j + 1)..Len(q) : q[k] = " "
        /\ [k \in 1..(Len(q) - i - j) |-> LowerChar(q[i + k])] \in target_queries

\* C8 (amended): when the invocation succeeds, a query that is one of the two
\* phrases up to surrounding blanks and letter case gets the fixed text and
\* the image (or the apology without the image), any other query gets the
\* agent's output and no image; when the invocation fails nothing is answered.
C8_NormalisedMatchDecides ==
    post_out # None =>
        IF post_in.fault = "none"
        THEN /\ Rendered(MatchesUpToCaseAndBlanks(post_in.query))
             /\ post_out.messages[2] =
                    [role |-> "assistant", content |-> post_out.ui.answer]
        ELSE /\ post_out.ui.answer = "" /\ ~post_out.ui.image
             /\ Len(post_out.messages) = 1

\* a capitalised, padded phrase with the image present got the fixed text
C8_Witness ==
    /\ post_out # None
    /\ post_in.query \notin target_queries
    /\ MatchesUpToCaseAndBlanks(post_in.query)
    /\ post_in.image_exists
    /\ post_out.ui.answer = SubstitutionText /\ post_out.ui.image

\* ------------------------------------------------------------------------
\* One agent_executor.invoke: the AgentExecutor of create_agent
\* (agent.py 214-222) running its loop over the two tools
\* ------------------------------------------------------------------------

\* the tools of line 109: create_retriever_tool_instance, create_table_query_tool
ToolNames == {"retrieve_documents", "table_query"}

\* the tool calls the model can propose in one iteration: at least one, at
\* most MaxToolCalls
ToolCallLists == SeqsUpTo(ToolNames, MaxToolCalls) \ {<<>>}

\* the executor's stopped response when the loop ends without a final answer
StoppedOutput == "Agent stopped due to max iterations."

\* the loop condition: iterations < max_iterations
ShouldContinue(iterations) == iterations < max_iterations

AgentInit ==
    /\ agent_run = [status |-> "running", iterations |-> 0,
                    intermediate_steps |-> <<>>, output |-> ""]
    /\ session_keys = {} /\ vector_store = None /\ agent_executor = None
    /\ file_names = <<>> /\ messages = <<>> /\ is_initialized = FALSE
    /\ faiss_index = NoIndex /\ ui = NoRun
    /\ LoadIdle /\ PostIdle /\ SearchIdle /\ SplitIdle

AgentRunning ==
    agent_run.status = "running" /\ ShouldContinue(agent_run.iterations)

\* the model proposes tool calls: the tools run, their observations join
\* intermediate_steps and the iteration is counted
AgentCallsTools ==
    \E tool_calls \in ToolCallLists :
        /\ AgentRunning
        /\ agent_run' = [agent_run EXCEPT
                            !.intermediate_steps = @ \o tool_calls,
                            !.iterations = @ + 1]
        /\ UNCHANGED <<main_vars, load_in, loaded, post_in, post_out,
                       search_in, search_out,
                   split_in, split_out>>

\* the model proposes a final answer: invoke returns it
AgentFinishes ==
    /\ AgentRunning
    /\ agent_run' = [agent_run EXCEPT !.status = "finished", !.output = AgentOutput]
    /\ UNCHANGED <<main_vars, load_in, loaded, post_in, post_out,
                   search_in, search_out,
                   split_in, split_out>>

\* the model's call, the parsing of its reply or the retriever raises: invoke
\* raises (table_query_tool catches its own exceptions, lines 77-80)
AgentRaises ==
    /\ AgentRunning
    /\ agent_run' = [agent_run EXCEPT !.status = "raised"]
    /\ UNCHANGED <<main_vars, load_in, loaded, post_in, post_out,
                   search_in, search_out,
                   split_in, split_out>>

\* the loop condition fails: invoke returns the stopped response
AgentStops ==
    /\ agent_run.status = "running"
    /\ ~ShouldContinue(agent_run.iterations)
    /\ agent_run' = [agent_run EXCEPT !.status = "stopped", !.output = StoppedOutput]
    /\ UNCHANGED <<main_vars, load_in, loaded, post_in, post_out,
                   search_in, search_out,
                   split_in, split_out>>

AgentNext == AgentCallsTools \/ AgentFinishes \/ AgentRaises \/ AgentStops

\* every delegated call returns or raises (the clients time out), so a running
\* loop takes its next step
SpecAgent == AgentInit /\ [][AgentNext]_vars /\ WF_vars(AgentNext)

\* C9: an invocation never runs more than 3 iterations, so never makes more
\* than 3 rounds of tool calls; it ends, with the model's final answer, with
\* the stopped response once 3 iterations are used up, or by raising.
C9_AgentLoopTerminates ==
    /\ [](/\ agent_run.iterations <= 3
          /\ Len(agent_run.intermediate_steps) <= 3 * MaxToolCalls
          /\ agent_run.status = "stopped" =>
                 agent_run.iterations = 3 /\ agent_run.output = StoppedOutput
          /\ agent_run.status = "finished" => agent_run.output = AgentOutput)
    /\ <>(agent_run.status \in {"finished", "stopped", "raised"})

\* three iterations of tool calls, then the iteration cap ended the invocation
C9_Witness ==
    /\ agent_run.status = "stopped"
    /\ agent_run.iterations = 3
    /\ Len(agent_run.intermediate_steps) = 3 * MaxToolCalls
    /\ Range(agent_run.intermediate_steps) = ToolNames

\* ------------------------------------------------------------------------
\* The retrieval tool on its own (agent.py 62-68)
\* ------------------------------------------------------------------------

\* k set one too high
retriever_k_Sixteen == 15 + 1

\* search_kwargs={"k": 15} (line 63)
retriever_k == 15

\* embeddings are points 0..VecModulus-1 of a line
VecModulus == 4

\* the distance between a query's embedding and an entry's
Distance(q, e) == IF q >= e.vec THEN q - e.vec ELSE e.vec - q

RECURSIVE Search(_, _, _)
\* the k entries of the index nearest to q, nearest first (an earlier entry
\* first among equally near ones); all of them when the index holds fewer
Search(index, q, k) ==
    IF k = 0 \/ index = <<>> THEN <<>>
    ELSE LET best == CHOOSE i \in 1..Len(index) :
                         \A j \in 1..Len(index) :
                             \/ Distance(q, index[i]) < Distance(q, index[j])
                             \/ Distance(q, index[i]) = Distance(q, index[j]) /\ i <= j
             rest == [j \in 1..(Len(index) - 1) |->
                         IF j < best THEN index[j] ELSE index[j + 1]]
         IN  <<index[best]>> \o Search(rest, q, k - 1)

\* the retriever of line 63 on a query: vector_store.as_retriever(k = 15)
Retrieve(index, q) == Search(index, q, retriever_k)

\* the indexes explored: n entries whose embeddings run a*i + b over the line
SampleIndexes ==
    {[i \in 1..n |-> [id |-> i, vec |-> (a * i + b) % VecModulus]] :
        n \in 0..(retriever_k + ExtraEntries),
        a \in 0..(VecModulus - 1), b \in 0..(VecModulus - 1)}

SearchInit ==
    /\ search_in \in [index : SampleIndexes, query : 0..(VecModulus - 1)]
    /\ search_out = None
    /\ session_keys = {} /\ vector_store = None /\ agent_executor = None
    /\ file_names = <<>> /\ messages = <<>> /\ is_initialized = FALSE
    /\ faiss_index = NoIndex /\ ui = NoRun
    /\ LoadIdle /\ PostIdle /\ AgentIdle /\ SplitIdle

\* the tool is called with the query
RetrieveDocuments ==
    /\ search_out = None
    /\ search_out' = [chunks |-> Retrieve(search_in.index, search_in.query)]
    /\ UNCHANGED <<main_vars, load_in, loaded, post_in, post_out, agent_run,
                   search_in, split_in, split_out>>

SearchNext == RetrieveDocuments

SpecSearch == SearchInit /\ [][SearchNext]_vars

\* C10: the tool returns at most 15 chunks, distinct entries of the index, in
\* non-decreasing distance to the query, and every entry when the index holds
\* fewer than 15.
C10_RetrievalTopK ==
    search_out # None =>
        LET res == search_out.chunks
            idx == search_in.index
            q == search_in.query
        IN  /\ Len(res) <= 15
            /\ \A i \in 1..Len(res) : res[i] \in Range(idx)
            /\ \A i, j \in 1..Len(res) : i < j => res[i] # res[j]
            /\ \A i \in 1..(Len(res) - 1) :
                   Distance(q, res[i]) <= Distance(q, res[i + 1])
            /\ Len(idx) < 15 => Range(res) = Range(idx) /\ Len(res) = Len(idx)

\* more than 15 entries at several distances: 15 chunks came back, ranked
C10_Witness ==
    /\ search_out # None
    /\ Len(search_in.index) > 15
    /\ Len(search_out.chunks) = 15
    /\ Distance(search_in.query, search_out.chunks[1])
           < Distance(search_in.query, search_out.chunks[15])


\* ------------------------------------------------------------------------
\* split_documents on its own (agent.py 48-50)
\* ------------------------------------------------------------------------

\* words of a row's text when split_documents is explored on its own
MaxWords == 3

\* the lengths of a word: one that fits in the overlap behind a separator,
\* one that leaves room for exactly that much, one that no chunk can hold
WordLengths == {chunk_overlap - 1, chunk_size - chunk_overlap,
                chunk_size + chunk_overlap}

\* what stands between two words: a blank, a line break, a blank line
Gaps == {<<" ">>, <<"\n">>, <<"\n", "\n">>}

\* the letters of the words, taken in turn along the text so that two
\* stretches of a text that start at different places differ
Letters == <<"a", "b", "c">>

\* the texts explored: up to MaxWords words, a gap between each two
Layouts ==
    UNION {[words : [1..k -> WordLengths], gaps : [1..(k - 1) -> Gaps]] :
              k \in 0..MaxWords}

RECURSIVE WordStart(_, _)
\* the number of characters before word k of a layout
WordStart(layout, k) ==
    IF k = 1 THEN 0
    ELSE WordStart(layout, k - 1) + layout.words[k - 1]
             + Len(layout.gaps[k - 1])

\* the text of a layout: each word, and the gap after it when another word
\* follows
RowText(layout) ==
    Concat([k \in 1..Len(layout.words) |->
               LET start == WordStart(layout, k)
               IN  [j \in 1..layout.words[k] |-> Letters[((start + j) % 3) + 1]]
                   \o (IF k < Len(layout.words) THEN layout.gaps[k] ELSE <<>>)])

\* the documents of a file of two rows: a row with the text of a layout,
\* and a short row after it
SplitInput(layout) ==
    << [page_content |-> RowText(layout),
        metadata |-> [source |-> csv_paths[1], row_index |-> 0]],
       [page_content |-> <<"a", " ", "b">>,
        metadata |-> [source |-> csv_paths[1], row_index |-> 1]] >>

SplitInit ==
    /\ split_in \in {SplitInput(layout) : layout \in Layouts}
    /\ split_out = None
    /\ session_keys = {} /\ vector_store = None /\ agent_executor = None
    /\ file_names = <<>> /\ messages = <<>> /\ is_initialized = FALSE
    /\ faiss_index = NoIndex /\ ui = NoRun
    /\ LoadIdle /\ PostIdle /\ AgentIdle /\ SearchIdle

\* split_documents(documents) is called; next to the chunk documents it
\* returns, the positions of its parent's text that each chunk holds are
\* recorded
SplitDocuments ==
    /\ split_out = None
    /\ split_out' =
           [documents |-> split_documents(split_in),
            chunks |-> [n \in 1..Len(split_in) |->
                           Chunks(split_in[n].page_content)]]
    /\ UNCHANGED <<main_vars, load_in, loaded, post_in, post_out, agent_run,
                   search_in, search_out, split_in>>

SplitNext == SplitDocuments

SpecSplit == SplitInit /\ [][SplitNext]_vars

\* the smaller of two numbers
Min(a, b) == IF a <= b THEN a ELSE b

DocumentsAt(documents, chunks) ==
    Concat([n \in 1..Len(documents) |->
               [c \in 1..Len(chunks[n]) |->
                   [page_content |-> SubSeq(documents[n].page_content,
                                            chunks[n][c].from, chunks[n][c].to),
                    metadata |-> documents[n].metadata]]])

==========================================================================
